---- MODULE Spec2Model ----
(***************************************************************************)
(* bevy-trait-query (src/src/lib.rs): the trait-implementation registry,   *)
(* the One / All query states and the four fetch forms, over a small model *)
(* of the host world (archetypes, tables, sparse sets).                    *)
(***************************************************************************)
EXTENDS Integers, Sequences, FiniteSets, TLC

VARIABLES
    registry,     \* per trait: the TraitImplRegistry resource of the world, if any
    sparse_sets,  \* world.storages().sparse_sets: the components that have a ComponentSparseSet
    entities,     \* the world's entities, in spawn order: entity id -> its component set
    one_state,    \* per trait: the OneQueryState built for it, if any
    all_state,    \* per trait: the AllQueryState built for it, if any
    fetch,        \* the Fetch value in use (one of the four forms), or the idle value
    cur,          \* the host's position: the archetype given to set_archetype, the index fetched
    item,         \* what the last archetype_fetch / iteration produced
    fault,        \* "none", or how the process ended: a panic or debug_unreachable
    access,       \* the FilteredAccess<ComponentId> of the query being composed
    last_call,    \* the most recent call made on the crate, with the state it was made in
    queries       \* the QueryStates the host has built: each one's declared accesses

vars == <<registry, sparse_sets, entities, one_state, all_state, fetch, cur, item, fault, access, last_call,
          queries>>

(***************************************************************************)
(* Bounds of the model.                                                    *)
(***************************************************************************)
MaxEntities == 2
MaxQueries == 2

(***************************************************************************)
(* Option values: None is the empty sequence, Some(x) a one-element one.   *)
(***************************************************************************)
None == <<>>
Some(x) == <<x>>
IsSome(o) == o # <<>>
Unwrap(o) == o[1]

(***************************************************************************)
(* The component types of the application and the traits they implement.   *)
(* A ComponentId stands for the type it was initialised for                *)
(* (World::init_component is an injection from types to ids).              *)
(***************************************************************************)
TableTypes == {"TabA", "TabB"}
SparseTypes == {"SpA", "SpB"}
Types == TableTypes \cup SparseTypes

MainTrait == "Tooltip"
OtherTrait == "Describe"
Traits == {MainTrait, OtherTrait}

\* <C as Component>::Storage::STORAGE_TYPE
StorageType(C) == IF C \in TableTypes THEN "Table" ELSE "SparseSet"

\* std::mem::size_of::<C>()
SizeOf(C) == CASE C = "TabA" -> 4 [] C = "TabB" -> 8 [] C = "SpA" -> 2 [] OTHER -> 12

\* World::init_component::<C>(): the id of C.
ComponentIdOf(C) == C

\* TraitImplMeta { size_bytes: size_of::<C>(), dyn_ctor: DynCtor { cast: <(C,)>::cast } }:
\* the constructor is represented by the type whose vtable it attaches.
MetaOf(C) == [size_bytes |-> SizeOf(C), dyn_ctor |-> C]

(***************************************************************************)
(* TraitImplRegistry                                                       *)
(***************************************************************************)
\* impl Default for TraitImplRegistry
DefaultRegistry ==
    [components |-> <<>>, meta |-> <<>>,
     table_components |-> <<>>, table_meta |-> <<>>,
     sparse_components |-> <<>>, sparse_meta |-> <<>>,
     sealed |-> FALSE]

\* Mutation of Vec::contains: only the first element is compared.
ContainsFirstOnly(s, x) == s # <<>> /\ s[1] = x

\* Vec::contains
Contains(s, x) == \E i \in DOMAIN s : s[i] = x

\* Mutation of register: the sealed flag is not looked at.
RegisterIgnoringSeal(r, C, component, meta) ==
    IF Contains(r.components, component) THEN [registry |-> r, panic |-> FALSE]
    ELSE LET pushed == [r EXCEPT !.components = Append(@, component),
                                 !.meta = Append(@, meta)]
         IN [registry |->
                IF StorageType(C) = "Table"
                THEN [pushed EXCEPT !.table_components = Append(@, component),
                                    !.table_meta = Append(@, meta)]
                ELSE [pushed EXCEPT !.sparse_components = Append(@, component),
                                    !.sparse_meta = Append(@, meta)],
             panic |-> FALSE]

\* Mutation of register: no check for a component that is already registered.
RegisterWithoutContains(r, C, component, meta) ==
    IF r.sealed THEN [registry |-> r, panic |-> TRUE]
    ELSE LET pushed == [r EXCEPT !.components = Append(@, component),
                                 !.meta = Append(@, meta)]
         IN [registry |->
                IF StorageType(C) = "Table"
                THEN [pushed EXCEPT !.table_components = Append(@, component),
                                    !.table_meta = Append(@, meta)]
                ELSE [pushed EXCEPT !.sparse_components = Append(@, component),
                                    !.sparse_meta = Append(@, meta)],
             panic |-> FALSE]

\* Mutation of register: the meta of a Table component is not pushed to table_meta.
RegisterWithoutTableMeta(r, C, component, meta) ==
    IF Contains(r.components, component) THEN [registry |-> r, panic |-> FALSE]
    ELSE IF r.sealed THEN [registry |-> r, panic |-> TRUE]
    ELSE LET pushed == [r EXCEPT !.components = Append(@, component),
                                 !.meta = Append(@, meta)]
         IN [registry |->
                IF StorageType(C) = "Table"
                THEN [pushed EXCEPT !.table_components = Append(@, component)]
                ELSE [pushed EXCEPT !.sparse_components = Append(@, component),
                                    !.sparse_meta = Append(@, meta)],
             panic |-> FALSE]

\* Mutation of register: the storage type is not looked at, every component is
\* pushed to the table sequences.
RegisterAllAsTable(r, C, component, meta) ==
    IF Contains(r.components, component) THEN [registry |-> r, panic |-> FALSE]
    ELSE IF r.sealed THEN [registry |-> r, panic |-> TRUE]
    ELSE [registry |-> [r EXCEPT !.components = Append(@, component),
                                 !.meta = Append(@, meta),
                                 !.table_components = Append(@, component),
                                 !.table_meta = Append(@, meta)],
          panic |-> FALSE]

\* Mutation of register: a new component is put in front of the sequences.
RegisterInFront(r, C, component, meta) ==
    IF Contains(r.components, component) THEN [registry |-> r, panic |-> FALSE]
    ELSE IF r.sealed THEN [registry |-> r, panic |-> TRUE]
    ELSE LET pushed == [r EXCEPT !.components = <<component>> \o @,
                                 !.meta = <<meta>> \o @]
         IN [registry |->
                IF StorageType(C) = "Table"
                THEN [pushed EXCEPT !.table_components = <<component>> \o @,
                                    !.table_meta = <<meta>> \o @]
                ELSE [pushed EXCEPT !.sparse_components = <<component>> \o @,
                                    !.sparse_meta = <<meta>> \o @],
             panic |-> FALSE]

\* Mutation of register: the sealed check comes after the pushes.
RegisterPushBeforeSealCheck(r, C, component, meta) ==
    IF Contains(r.components, component) THEN [registry |-> r, panic |-> FALSE]
    ELSE LET pushed == [r EXCEPT !.components = Append(@, component),
                                 !.meta = Append(@, meta)]
         IN [registry |->
                IF StorageType(C) = "Table"
                THEN [pushed EXCEPT !.table_components = Append(@, component),
                                    !.table_meta = Append(@, meta)]
                ELSE [pushed EXCEPT !.sparse_components = Append(@, component),
                                    !.sparse_meta = Append(@, meta)],
             panic |-> r.sealed]

\* TraitImplRegistry::register::<C>(component, meta): the registry after the call
\* and whether the call panicked.
TraitImplRegistryRegister(r, C, component, meta) ==
    IF Contains(r.components, component) THEN [registry |-> r, panic |-> FALSE]
    ELSE IF r.sealed THEN [registry |-> r, panic |-> TRUE]
    ELSE LET pushed == [r EXCEPT !.components = Append(@, component),
                                 !.meta = Append(@, meta)]
         IN [registry |->
                IF StorageType(C) = "Table"
                THEN [pushed EXCEPT !.table_components = Append(@, component),
                                    !.table_meta = Append(@, meta)]
                ELSE [pushed EXCEPT !.sparse_components = Append(@, component),
                                    !.sparse_meta = Append(@, meta)],
             panic |-> FALSE]

\* Mutation of seal: the flag is left as it is.
SealForgotten(r) == r

\* Mutation of seal: the flag is flipped.
SealToggles(r) == [r EXCEPT !.sealed = ~@]

\* TraitImplRegistry::seal
Seal(r) == [r EXCEPT !.sealed = TRUE]

(***************************************************************************)
(* The host world: archetypes, tables, sparse sets.                        *)
(***************************************************************************)
\* Components::init_component of the host: a component with SparseSet storage
\* gets its ComponentSparseSet when it is initialised.
InitComponentSparseSets(sets, C) ==
    IF StorageType(C) = "SparseSet" THEN sets \cup {ComponentIdOf(C)} ELSE sets

\* The component sets of the world's archetypes that hold entities.
Archetypes == {entities[e] : e \in DOMAIN entities}

\* The ids in S, ascending.
RECURSIVE Ascending(_)
Ascending(S) ==
    IF S = {} THEN <<>>
    ELSE LET m == CHOOSE x \in S : \A y \in S : x <= y
         IN <<m>> \o Ascending(S \ {m})

\* Archetype::table_id: a table holds the table-storage components of its archetypes.
TableId(a) == a \cap TableTypes

\* Archetype::entities: the entities of the archetype, by archetype index (0-based in
\* the code; position k here is archetype index k - 1).
ArchetypeEntities(a) == Ascending({e \in DOMAIN entities : entities[e] = a})

\* Table::entities: the entities of the table, by table row.
TableEntities(tid) == Ascending({e \in DOMAIN entities : TableId(entities[e]) = tid})

\* The (0-based) row of entity e in its table.
TableRowOf(e) ==
    LET rows == TableEntities(TableId(entities[e]))
    IN (CHOOSE k \in DOMAIN rows : rows[k] = e) - 1

\* Archetype::entity_table_rows
EntityTableRows(a) ==
    LET es == ArchetypeEntities(a) IN [k \in DOMAIN es |-> TableRowOf(es[k])]

\* Raw pointers. A table pointer is a column plus a byte offset; a sparse pointer is
\* what a ComponentSparseSet hands out for an entity.
TablePtr(tid, c, off) == [kind |-> "table", table |-> tid, comp |-> c, off |-> off, entity |-> 0]
SparsePtr(c, e) == [kind |-> "sparse", table |-> {}, comp |-> c, off |-> 0, entity |-> e]
NullPtr == [kind |-> "null", table |-> {}, comp |-> "", off |-> 0, entity |-> 0]

\* Ptr::byte_add
ByteAdd(ptr, n) == [ptr EXCEPT !.off = @ + n]

\* The component instance stored at the address, if there is one: column c of a table
\* stores the instance of the entity in row k at byte k * size_of::<c>().
Pointee(ptr) ==
    IF ptr.kind = "sparse" THEN
        IF ptr.entity \in DOMAIN entities /\ ptr.comp \in entities[ptr.entity]
        THEN Some([comp |-> ptr.comp, entity |-> ptr.entity]) ELSE None
    ELSE IF ptr.kind = "table" THEN
        LET rows == TableEntities(ptr.table)
            size == SizeOf(ptr.comp)
        IN IF ptr.comp \in ptr.table /\ ptr.off % size = 0 /\ ptr.off \div size < Len(rows)
           THEN Some([comp |-> ptr.comp, entity |-> rows[(ptr.off \div size) + 1]])
           ELSE None
    ELSE None

\* Table::get_column: a table has a column for exactly its own components.
TableGetColumn(tid, component) ==
    IF component \in tid THEN Some([table |-> tid, comp |-> component]) ELSE None

\* Column::get_data_ptr
GetDataPtr(column) == TablePtr(column.table, column.comp, 0)

\* SparseSets::get
SparseSetsGet(sets, component) == IF component \in sets THEN Some(component) ELSE None

\* ComponentSparseSet::get / get_with_ticks: the entity's instance, if it has one.
ComponentSparseSetGet(set, entity) ==
    IF entity \in DOMAIN entities /\ set \in entities[entity]
    THEN Some(SparsePtr(set, entity)) ELSE None

\* The addresses a pointer read after undefined behaviour may hold.
WildPtrs ==
    {NullPtr}
    \cup {SparsePtr(c, e) : c \in SparseTypes, e \in DOMAIN entities}
    \cup {TablePtr(TableId(entities[e]), c, TableRowOf(e) * SizeOf(c)) :
            c \in TableTypes, e \in DOMAIN entities}

(***************************************************************************)
(* Query states                                                            *)
(***************************************************************************)
\* OneQueryState::init, the value built from the registry
OneQueryStateOf(r) == [components |-> r.components, meta |-> r.meta]

\* Mutation of the One predicate: one registered component or more.
OneMatchesAtLeastOne(state, set) ==
    LET match_count == Cardinality({i \in DOMAIN state.components : state.components[i] \in set})
    IN match_count >= 1

\* OneQueryState::matches_component_set
OneMatchesComponentSet(state, set) ==
    LET match_count == Cardinality({i \in DOMAIN state.components : state.components[i] \in set})
    IN match_count = 1

\* AllQueryState::init, the value built from the registry
AllQueryStateOf(r) == [components |-> r.components]

\* Mutation of the All predicate: only the first registered component is looked for.
AllMatchesFirstOnly(state, set) ==
    \E i \in DOMAIN state.components : i = 1 /\ state.components[i] \in set

\* AllQueryState::matches_component_set
AllMatchesComponentSet(state, set) ==
    \E i \in DOMAIN state.components : state.components[i] \in set

\* zip_exact(a, b): one pair per item of a; b running out first is debug_unreachable.
ZipExact(a, b) ==
    [i \in DOMAIN a |-> [a |-> a[i], b |-> IF i <= Len(b) THEN Some(b[i]) ELSE None]]

(***************************************************************************)
(* Single-match fetch: ReadTraitFetch and WriteTraitFetch                  *)
(***************************************************************************)
Uninit == [tag |-> "Uninit"]
Unreachable == [tag |-> "debug_unreachable"]

\* The first index at which the loop over a zipped sequence takes its if-let branch
\* (hits[i] tells whether item i does), or 0 if it runs to the end.
FirstIndex(hits) ==
    IF \E i \in DOMAIN hits : hits[i]
    THEN CHOOSE i \in DOMAIN hits : hits[i] /\ \A j \in 1..(i - 1) : ~hits[j]
    ELSE 0

\* ReadTraitFetch::set_archetype / WriteTraitFetch::set_archetype: the storage the
\* fetch holds afterwards (the write form also keeps the column's ticks).
OneSetArchetype(state, sets, archetype) ==
    LET table == TableId(archetype)
        zipped == ZipExact(state.components, state.meta)
        InTable(component) == IsSome(TableGetColumn(table, component))
        HasSparseSet(component) == IsSome(SparseSetsGet(sets, component))
        t == FirstIndex([i \in DOMAIN zipped |-> InTable(zipped[i].a)])
        s == FirstIndex([i \in DOMAIN zipped |-> HasSparseSet(zipped[i].a)])
    IN IF t # 0 THEN
           IF \E j \in 1..t : zipped[j].b = None THEN Unreachable
           ELSE [tag |-> "Table",
                 column |-> Unwrap(TableGetColumn(table, zipped[t].a)),
                 table_ticks |-> Unwrap(TableGetColumn(table, zipped[t].a)),
                 entity_rows |-> EntityTableRows(archetype),
                 meta |-> Unwrap(zipped[t].b)]
       ELSE IF \E j \in DOMAIN zipped : zipped[j].b = None THEN Unreachable
       ELSE IF s # 0 THEN
           [tag |-> "SparseSet",
            components |-> Unwrap(SparseSetsGet(sets, zipped[s].a)),
            entities |-> ArchetypeEntities(archetype),
            meta |-> Unwrap(zipped[s].b)]
       ELSE Unreachable

\* The change-tracking part of a Mut: the ComponentTicks cell and the fetch's ticks.
TicksOf(f, cell) ==
    [component_ticks |-> cell, last_change_tick |-> f.last_change_tick, change_tick |-> f.change_tick]

\* DynCtor::cast / cast_mut: the trait object made from ptr with the vtable of the
\* type dyn_ctor was created for.
Cast(dyn_ctor, ptr) == [ptr |-> ptr, ctor |-> dyn_ctor]

\* The ComponentTicks cells: of a table column at a row, of a sparse set for an entity.
TableTicks(column, row) ==
    [store |-> "table", table |-> column.table, comp |-> column.comp, row |-> row, entity |-> 0]
SparseTicks(set, entity) ==
    [store |-> "sparse", table |-> {}, comp |-> set, row |-> 0, entity |-> entity]

\* The ComponentTicks cells a reference read after undefined behaviour may address.
WildTicks ==
    {SparseTicks(c, e) : c \in SparseTypes, e \in DOMAIN entities}
    \cup {TableTicks([table |-> TableId(entities[e]), comp |-> c], TableRowOf(e)) :
            c \in TableTypes, e \in DOMAIN entities}

\* The item of a read fetch (&Trait) and of a write fetch (Mut { value, ticks }).
RefItem(value) == [value |-> value, ticks |-> None]
MutItem(value, ticks) == [value |-> value, ticks |-> Some(ticks)]

\* Mutation of archetype_fetch: the archetype index is used as the table row.
OneArchetypeFetchByIndex(f, archetype_index) ==
    IF f.storage.tag = "Table" THEN
        LET meta == f.storage.meta
            ptr == ByteAdd(GetDataPtr(f.storage.column), archetype_index * meta.size_bytes)
        IN IF f.form = "WriteOne"
           THEN MutItem(Cast(meta.dyn_ctor, ptr), TicksOf(f, TableTicks(f.storage.table_ticks, archetype_index)))
           ELSE RefItem(Cast(meta.dyn_ctor, ptr))
    ELSE IF f.storage.tag = "SparseSet" THEN
        LET meta == f.storage.meta
            entity == f.storage.entities[archetype_index + 1]
            got == ComponentSparseSetGet(f.storage.components, entity)
        IN IF got = None THEN Unreachable
           ELSE IF f.form = "WriteOne"
           THEN MutItem(Cast(meta.dyn_ctor, Unwrap(got)),
                        TicksOf(f, SparseTicks(f.storage.components, entity)))
           ELSE RefItem(Cast(meta.dyn_ctor, Unwrap(got)))
    ELSE Unreachable

\* ReadTraitFetch::archetype_fetch / WriteTraitFetch::archetype_fetch
OneArchetypeFetch(f, archetype_index) ==
    IF f.storage.tag = "Table" THEN
        LET meta == f.storage.meta
            table_row == f.storage.entity_rows[archetype_index + 1]
            ptr == ByteAdd(GetDataPtr(f.storage.column), table_row * meta.size_bytes)
        IN IF f.form = "WriteOne"
           THEN MutItem(Cast(meta.dyn_ctor, ptr), TicksOf(f, TableTicks(f.storage.table_ticks, table_row)))
           ELSE RefItem(Cast(meta.dyn_ctor, ptr))
    ELSE IF f.storage.tag = "SparseSet" THEN
        LET meta == f.storage.meta
            entity == f.storage.entities[archetype_index + 1]
            got == ComponentSparseSetGet(f.storage.components, entity)
        IN IF got = None THEN Unreachable
           ELSE IF f.form = "WriteOne"
           THEN MutItem(Cast(meta.dyn_ctor, Unwrap(got)),
                        TicksOf(f, SparseTicks(f.storage.components, entity)))
           ELSE RefItem(Cast(meta.dyn_ctor, Unwrap(got)))
    ELSE Unreachable

\* The last index at which the loop takes its if-let branch, or 0.
LastIndex(hits) ==
    IF \E i \in DOMAIN hits : hits[i]
    THEN CHOOSE i \in DOMAIN hits : hits[i] /\ \A j \in (i + 1)..Len(hits) : ~hits[j]
    ELSE 0

\* The Table storage set_table records for the column of a component: no entity rows.
DenseStorage(table, component, meta) ==
    [tag |-> "Table",
     column |-> Unwrap(TableGetColumn(table, component)),
     table_ticks |-> Unwrap(TableGetColumn(table, component)),
     entity_rows |-> <<>>,
     meta |-> meta]

\* ReadTraitFetch::set_table: every hit of the loop over std::iter::zip assigns the
\* storage and the loop goes on, so the last hit stays; after the loop the function
\* calls debug_unreachable whether there was a hit or not.
ReadSetTable(state, table, storage) ==
    LET n == IF Len(state.components) <= Len(state.meta) THEN Len(state.components) ELSE Len(state.meta)
        k == LastIndex([i \in 1..n |-> IsSome(TableGetColumn(table, state.components[i]))])
    IN [storage |-> IF k = 0 THEN storage ELSE DenseStorage(table, state.components[k], state.meta[k]),
        unreachable |-> TRUE]

\* WriteTraitFetch::set_table: the first hit assigns the storage and returns; only a
\* loop without a hit reaches debug_unreachable.
WriteSetTable(state, table, storage) ==
    LET n == IF Len(state.components) <= Len(state.meta) THEN Len(state.components) ELSE Len(state.meta)
        k == FirstIndex([i \in 1..n |-> IsSome(TableGetColumn(table, state.components[i]))])
    IN [storage |-> IF k = 0 THEN storage ELSE DenseStorage(table, state.components[k], state.meta[k]),
        unreachable |-> k = 0]

\* ReadTraitFetch::table_fetch / WriteTraitFetch::table_fetch
OneTableFetch(f, table_row) ==
    IF f.storage.tag = "Table" THEN
        LET meta == f.storage.meta
            ptr == ByteAdd(GetDataPtr(f.storage.column), table_row * meta.size_bytes)
        IN IF f.form = "WriteOne"
           THEN MutItem(Cast(meta.dyn_ctor, ptr), TicksOf(f, TableTicks(f.storage.table_ticks, table_row)))
           ELSE RefItem(Cast(meta.dyn_ctor, ptr))
    ELSE Unreachable

(***************************************************************************)
(* All-matches fetch: ReadAllTraitsFetch / WriteAllTraitsFetch, the        *)
(* ReadTraits / WriteTraits items and their iterators                      *)
(***************************************************************************)
\* ReadAllTraitsFetch::archetype_fetch / WriteAllTraitsFetch::archetype_fetch:
\* the ReadTraits / WriteTraits value, or debug_unreachable before set_archetype.
AllArchetypeFetch(f, archetype_index) ==
    IF f.entity_table_rows = None \/ f.table = None THEN Unreachable
    ELSE [trait |-> f.trait,
          write |-> f.form = "WriteAll",
          table |-> Unwrap(f.table),
          table_row |-> Unwrap(f.entity_table_rows)[archetype_index + 1],
          last_change_tick |-> f.last_change_tick,
          change_tick |-> f.change_tick]

\* The rest of a sequence after its first k items.
Rest(s, k) == SubSeq(s, k + 1, Len(s))

\* ReadTableTraitsIter::next / WriteTableTraitsIter::next on an iterator
\* it = [components, meta, table, table_row, write, ticks]: what it yields (None at
\* the end, Unreachable if meta runs out) and the iterator afterwards.
TableTraitsIterNext(it) ==
    LET zipped == ZipExact(it.components, it.meta)
        InTable(component) == IsSome(TableGetColumn(it.table, component))
        k == FirstIndex([i \in DOMAIN zipped |-> InTable(zipped[i].a)])
        n == IF k = 0 THEN Len(zipped) ELSE k
    IN IF \E j \in 1..n : zipped[j].b = None
       THEN [yield |-> Some(Unreachable), components |-> <<>>, meta |-> <<>>]
       ELSE IF k = 0
       THEN [yield |-> None, components |-> <<>>, meta |-> <<>>]
       ELSE LET column == Unwrap(TableGetColumn(it.table, zipped[k].a))
                meta == Unwrap(zipped[k].b)
                ptr == ByteAdd(GetDataPtr(column), it.table_row * meta.size_bytes)
                trait_object == Cast(meta.dyn_ctor, ptr)
            IN [yield |-> Some(IF it.write
                               THEN MutItem(trait_object, TicksOf(it, TableTicks(column, it.table_row)))
                               ELSE RefItem(trait_object)),
                components |-> Rest(it.components, k),
                meta |-> Rest(it.meta, k)]

\* ReadSparseTraitsIter::next / WriteSparseTraitsIter::next on an iterator
\* it = [components, meta, entity, sparse_sets, write, ticks].
SparseTraitsIterNext(it) ==
    LET zipped == ZipExact(it.components, it.meta)
        Found(component) ==
            /\ IsSome(SparseSetsGet(it.sparse_sets, component))
            /\ IsSome(ComponentSparseSetGet(Unwrap(SparseSetsGet(it.sparse_sets, component)), it.entity))
        k == FirstIndex([i \in DOMAIN zipped |-> Found(zipped[i].a)])
        n == IF k = 0 THEN Len(zipped) ELSE k
    IN IF \E j \in 1..n : zipped[j].b = None
       THEN [yield |-> Some(Unreachable), components |-> <<>>, meta |-> <<>>]
       ELSE IF k = 0
       THEN [yield |-> None, components |-> <<>>, meta |-> <<>>]
       ELSE LET set == Unwrap(SparseSetsGet(it.sparse_sets, zipped[k].a))
                meta == Unwrap(zipped[k].b)
                ptr == Unwrap(ComponentSparseSetGet(set, it.entity))
                trait_object == Cast(meta.dyn_ctor, ptr)
            IN [yield |-> Some(IF it.write
                               THEN MutItem(trait_object, TicksOf(it, SparseTicks(set, it.entity)))
                               ELSE RefItem(trait_object)),
                components |-> Rest(it.components, k),
                meta |-> Rest(it.meta, k)]

\* Everything a table iterator yields until it returns None.
RECURSIVE TableTraitsCollect(_)
TableTraitsCollect(it) ==
    LET n == TableTraitsIterNext(it)
    IN IF n.yield = None THEN <<>>
       ELSE IF Unwrap(n.yield) = Unreachable THEN <<Unreachable>>
       ELSE <<Unwrap(n.yield)>>
            \o TableTraitsCollect([it EXCEPT !.components = n.components, !.meta = n.meta])

\* Everything a sparse iterator yields until it returns None.
RECURSIVE SparseTraitsCollect(_)
SparseTraitsCollect(it) ==
    LET n == SparseTraitsIterNext(it)
    IN IF n.yield = None THEN <<>>
       ELSE IF Unwrap(n.yield) = Unreachable THEN <<Unreachable>>
       ELSE <<Unwrap(n.yield)>>
            \o SparseTraitsCollect([it EXCEPT !.components = n.components, !.meta = n.meta])

\* Mutation of into_iter: an item that was iterated already yields nothing more.
TraitsIntoIterOnce(traits, r, sets) ==
    LET spent == last_call.op = "into_iter"
    IN [table |-> [components |-> IF spent THEN <<>> ELSE r.table_components,
                   meta |-> IF spent THEN <<>> ELSE r.table_meta,
                   table |-> traits.table, table_row |-> traits.table_row,
                   write |-> traits.write,
                   last_change_tick |-> traits.last_change_tick,
                   change_tick |-> traits.change_tick],
        sparse |-> [components |-> IF spent THEN <<>> ELSE r.sparse_components,
                    meta |-> IF spent THEN <<>> ELSE r.sparse_meta,
                    entity |-> TableEntities(traits.table)[traits.table_row + 1],
                    sparse_sets |-> sets,
                    write |-> traits.write,
                    last_change_tick |-> traits.last_change_tick,
                    change_tick |-> traits.change_tick]]

\* IntoIterator for ReadTraits / WriteTraits: the two iterators built from the
\* registry r, the table one chained before the sparse one.
TraitsIntoIter(traits, r, sets) ==
    [table |-> [components |-> r.table_components, meta |-> r.table_meta,
                table |-> traits.table, table_row |-> traits.table_row,
                write |-> traits.write,
                last_change_tick |-> traits.last_change_tick,
                change_tick |-> traits.change_tick],
     sparse |-> [components |-> r.sparse_components, meta |-> r.sparse_meta,
                 entity |-> TableEntities(traits.table)[traits.table_row + 1],
                 sparse_sets |-> sets,
                 write |-> traits.write,
                 last_change_tick |-> traits.last_change_tick,
                 change_tick |-> traits.change_tick]]

\* Mutation of the chain: the sparse iterator before the table iterator.
CollectChainSparseFirst(iter) ==
    LET first == SparseTraitsCollect(iter.sparse)
    IN IF Contains(first, Unreachable) THEN first
       ELSE first \o TableTraitsCollect(iter.table)

\* Mutation of the chain: the table iterator is run a second time before the sparse one.
CollectChainTableTwice(iter) ==
    LET first == TableTraitsCollect(iter.table)
    IN IF Contains(first, Unreachable) THEN first
       ELSE first \o first \o SparseTraitsCollect(iter.sparse)

\* Chain: the table iterator to its end, then the sparse iterator.
CollectChain(iter) ==
    LET first == TableTraitsCollect(iter.table)
    IN IF Contains(first, Unreachable) THEN first
       ELSE first \o SparseTraitsCollect(iter.sparse)

(***************************************************************************)
(* Access declaration                                                      *)
(***************************************************************************)
\* Access::add_read, Access::add_write, Access::has_read, Access::has_write of the host
AddRead(a, c) == [a EXCEPT !.reads_and_writes = @ \cup {c}]
AddWrite(a, c) == [a EXCEPT !.reads_and_writes = @ \cup {c}, !.writes = @ \cup {c}]
HasRead(a, c) == c \in a.reads_and_writes
HasWrite(a, c) == c \in a.writes

\* Mutation of the read form's declaration: the assertion is left out.
ReadUpdateWithoutAssert(components, a, i) ==
    [access |-> [a EXCEPT !.reads_and_writes = @ \cup {components[k] : k \in i..Len(components)}],
     panic |-> FALSE]

\* ReadTraitFetch::update_component_access / ReadAllTraitsFetch::update_component_access,
\* from the i-th component of the state on: the access afterwards and whether the
\* assertion failed.
RECURSIVE ReadUpdateComponentAccess(_, _, _)
ReadUpdateComponentAccess(components, a, i) ==
    IF i > Len(components) THEN [access |-> a, panic |-> FALSE]
    ELSE IF HasWrite(a, components[i]) THEN [access |-> a, panic |-> TRUE]
    ELSE ReadUpdateComponentAccess(components, AddRead(a, components[i]), i + 1)

\* Mutation of the write form's declaration: the loop stops after one component.
WriteUpdateFirstOnly(components, a, i) ==
    IF i > Len(components) THEN [access |-> a, panic |-> FALSE]
    ELSE IF HasWrite(a, components[i]) THEN [access |-> a, panic |-> TRUE]
    ELSE [access |-> AddWrite(a, components[i]), panic |-> FALSE]

\* WriteTraitFetch::update_component_access / WriteAllTraitsFetch::update_component_access
RECURSIVE WriteUpdateComponentAccess(_, _, _)
WriteUpdateComponentAccess(components, a, i) ==
    IF i > Len(components) THEN [access |-> a, panic |-> FALSE]
    ELSE IF HasWrite(a, components[i]) THEN [access |-> a, panic |-> TRUE]
    ELSE WriteUpdateComponentAccess(components, AddWrite(a, components[i]), i + 1)

\* Archetype::get_archetype_component_id of the host: Some id, proper to the
\* archetype and the component, if the archetype holds the component.
GetArchetypeComponentId(archetype, component) ==
    IF component \in archetype THEN Some(<<archetype, component>>) ELSE None

\* Mutation of the write form's archetype declaration: a read is declared.
WriteArchetypeAccessAsRead(components, archetype, a, i) ==
    [a EXCEPT !.reads_and_writes =
        @ \cup {<<archetype, components[k]>> : k \in {j \in i..Len(components) : components[j] \in archetype}}]

\* Mutation of the read form's archetype declaration: only the first component
\* found in the archetype is declared.
ReadArchetypeAccessFirstOnly(components, archetype, a, i) ==
    LET present == {j \in i..Len(components) : components[j] \in archetype}
    IN IF present = {} THEN a
       ELSE AddRead(a, <<archetype, components[CHOOSE j \in present : \A k \in present : j <= k]>>)

\* ReadTraitFetch::update_archetype_component_access /
\* ReadAllTraitsFetch::update_archetype_component_access, from the i-th component on.
RECURSIVE ReadUpdateArchetypeComponentAccess(_, _, _, _)
ReadUpdateArchetypeComponentAccess(components, archetype, a, i) ==
    IF i > Len(components) THEN a
    ELSE LET id == GetArchetypeComponentId(archetype, components[i])
         IN ReadUpdateArchetypeComponentAccess(components, archetype,
                IF IsSome(id) THEN AddRead(a, Unwrap(id)) ELSE a, i + 1)

\* WriteTraitFetch::update_archetype_component_access /
\* WriteAllTraitsFetch::update_archetype_component_access, from the i-th component on.
RECURSIVE WriteUpdateArchetypeComponentAccess(_, _, _, _)
WriteUpdateArchetypeComponentAccess(components, archetype, a, i) ==
    IF i > Len(components) THEN a
    ELSE LET id == GetArchetypeComponentId(archetype, components[i])
         IN WriteUpdateArchetypeComponentAccess(components, archetype,
                IF IsSome(id) THEN AddWrite(a, Unwrap(id)) ELSE a, i + 1)

\* Access::is_compatible of the host: neither side writes what the other accesses.
IsCompatible(a, b) ==
    /\ a.writes \cap b.reads_and_writes = {}
    /\ b.writes \cap a.reads_and_writes = {}

(***************************************************************************)
(* State and operations                                                    *)
(***************************************************************************)
Idle == [form |-> "Idle"]
NoCur == [archetype |-> None, index |-> None]
NoItem == [traits |-> None, refs |-> None]
NoCall == [op |-> "none", trait |-> "", arg |-> "", before |-> None]

\* Access::default
DefaultAccess == [reads_and_writes |-> {}, writes |-> {}]

\* The change ticks a write fetch may be initialised with: (last_change_tick, change_tick).
TickPairs == {<<1, 2>>, <<2, 5>>}

Init ==
    /\ registry = [t \in Traits |-> None]
    /\ sparse_sets = {}
    /\ entities = <<>>
    /\ one_state = [t \in Traits |-> None]
    /\ all_state = [t \in Traits |-> None]
    /\ fetch = Idle
    /\ cur = NoCur
    /\ item = NoItem
    /\ fault = "none"
    /\ access = DefaultAccess
    /\ last_call = NoCall
    /\ queries = <<>>

RegistryOrDefault(t) == IF IsSome(registry[t]) THEN Unwrap(registry[t]) ELSE DefaultRegistry

\* Mutation of register_component_as: one registry is shared by every trait.
RegisterComponentAsShared(t, C) ==
    /\ fault = "none"
    /\ fetch = Idle
    /\ LET Registered_(u) ==
               TraitImplRegistryRegister(RegistryOrDefault(u), C, ComponentIdOf(C), MetaOf(C))
       IN /\ sparse_sets' = InitComponentSparseSets(sparse_sets, C)
          /\ registry' = [u \in Traits |-> Some(Registered_(u).registry)]
          /\ fault' = IF Registered_(t).panic THEN "panic_late_registration" ELSE "none"
    /\ UNCHANGED <<entities, one_state, all_state, fetch, cur, item>>

\* RegisterExt for World::register_component_as::<Trait, C>
RegisterComponentAs(t, C) ==
    /\ fault = "none"
    /\ fetch = Idle
    /\ LET component_id == ComponentIdOf(C)
           registered == TraitImplRegistryRegister(RegistryOrDefault(t), C, component_id, MetaOf(C))
       IN /\ sparse_sets' = InitComponentSparseSets(sparse_sets, C)
          /\ registry' = [registry EXCEPT ![t] = Some(registered.registry)]
          /\ fault' = IF registered.panic THEN "panic_late_registration" ELSE "none"
    /\ UNCHANGED <<entities, one_state, all_state, fetch, cur, item>>

\* The host spawns an entity with the component set cs.
Spawn(cs) ==
    /\ fault = "none"
    /\ fetch = Idle
    /\ Len(entities) < MaxEntities
    /\ entities' = Append(entities, cs)
    /\ sparse_sets' = sparse_sets \cup {ComponentIdOf(C) : C \in cs \cap SparseTypes}
    /\ UNCHANGED <<registry, one_state, all_state, fetch, cur, item, fault>>

\* Mutation of OneQueryState::init: a missing registry is replaced by an empty one.
OneQueryStateInitOrDefault(t) ==
    /\ fault = "none"
    /\ fetch = Idle
    /\ LET r == IF registry[t] = None THEN DefaultRegistry ELSE Unwrap(registry[t])
       IN /\ registry' = [registry EXCEPT ![t] = Some(Seal(r))]
          /\ one_state' = [one_state EXCEPT ![t] = Some(OneQueryStateOf(Seal(r)))]
          /\ UNCHANGED fault
    /\ UNCHANGED <<sparse_sets, entities, all_state, fetch, cur, item>>

\* OneQueryState::init
OneQueryStateInit(t) ==
    /\ fault = "none"
    /\ fetch = Idle
    /\ IF registry[t] = None
       THEN /\ fault' = "panic_no_registry"
            /\ UNCHANGED <<registry, one_state>>
       ELSE /\ registry' = [registry EXCEPT ![t] = Some(Seal(Unwrap(registry[t])))]
            /\ one_state' = [one_state EXCEPT ![t] = Some(OneQueryStateOf(Seal(Unwrap(registry[t]))))]
            /\ UNCHANGED fault
    /\ UNCHANGED <<sparse_sets, entities, all_state, fetch, cur, item>>

\* Mutation of AllQueryState::init: the state is cloned without sealing the registry.
AllQueryStateInitWithoutSeal(t) ==
    /\ fault = "none"
    /\ fetch = Idle
    /\ IF registry[t] = None
       THEN /\ fault' = "panic_no_registry"
            /\ UNCHANGED <<registry, all_state>>
       ELSE /\ all_state' = [all_state EXCEPT ![t] = Some(AllQueryStateOf(Unwrap(registry[t])))]
            /\ UNCHANGED <<registry, fault>>
    /\ UNCHANGED <<sparse_sets, entities, one_state, fetch, cur, item>>

\* AllQueryState::init
AllQueryStateInit(t) ==
    /\ fault = "none"
    /\ fetch = Idle
    /\ IF registry[t] = None
       THEN /\ fault' = "panic_no_registry"
            /\ UNCHANGED <<registry, all_state>>
       ELSE /\ registry' = [registry EXCEPT ![t] = Some(Seal(Unwrap(registry[t])))]
            /\ all_state' = [all_state EXCEPT ![t] = Some(AllQueryStateOf(Seal(Unwrap(registry[t]))))]
            /\ UNCHANGED fault
    /\ UNCHANGED <<sparse_sets, entities, one_state, fetch, cur, item>>

\* ReadTraitFetch::init
ReadTraitFetchInit(t) ==
    /\ fault = "none"
    /\ fetch = Idle
    /\ IsSome(one_state[t])
    /\ fetch' = [form |-> "ReadOne", trait |-> t, storage |-> Uninit,
                 last_change_tick |-> 0, change_tick |-> 0]
    /\ cur' = NoCur
    /\ item' = NoItem
    /\ UNCHANGED <<registry, sparse_sets, entities, one_state, all_state, fault>>

\* WriteTraitFetch::init
WriteTraitFetchInit(t, last_change_tick, change_tick) ==
    /\ fault = "none"
    /\ fetch = Idle
    /\ IsSome(one_state[t])
    /\ fetch' = [form |-> "WriteOne", trait |-> t, storage |-> Uninit,
                 last_change_tick |-> last_change_tick, change_tick |-> change_tick]
    /\ cur' = NoCur
    /\ item' = NoItem
    /\ UNCHANGED <<registry, sparse_sets, entities, one_state, all_state, fault>>

\* What reaching debug_unreachable does: a panic with debug assertions, and
\* unreachable_unchecked (undefined behaviour) without them.
UnreachableFaults == {"debug_unreachable", "undefined_behaviour"}

\* ReadTraitFetch::set_archetype / WriteTraitFetch::set_archetype, called by the host
\* on an archetype its matching predicate accepted.
OneFetchSetArchetype(a) ==
    /\ fault = "none"
    /\ fetch.form \in {"ReadOne", "WriteOne"}
    /\ a \in Archetypes
    /\ OneMatchesComponentSet(Unwrap(one_state[fetch.trait]), a)
    /\ LET storage == OneSetArchetype(Unwrap(one_state[fetch.trait]), sparse_sets, a)
       IN IF storage = Unreachable
          THEN /\ fault' \in UnreachableFaults
               /\ UNCHANGED fetch
          ELSE /\ fetch' = [fetch EXCEPT !.storage = storage]
               /\ UNCHANGED fault
    /\ cur' = [archetype |-> Some(a), index |-> None]
    /\ item' = NoItem
    /\ UNCHANGED <<registry, sparse_sets, entities, one_state, all_state>>

\* ReadTraitFetch::archetype_fetch / WriteTraitFetch::archetype_fetch, called by the
\* host after set_archetype for an entity of that archetype.
OneFetchArchetypeFetch(archetype_index) ==
    /\ fault = "none"
    /\ fetch.form \in {"ReadOne", "WriteOne"}
    /\ IsSome(cur.archetype)
    /\ archetype_index \in 0..(Len(ArchetypeEntities(Unwrap(cur.archetype))) - 1)
    /\ LET got == OneArchetypeFetch(fetch, archetype_index)
       IN IF got = Unreachable
          THEN \/ /\ fault' = "debug_unreachable"
                  /\ item' = NoItem
               \/ /\ fault' = "undefined_behaviour"
                  /\ \E wild \in WildPtrs, cell \in WildTicks :
                        item' = [traits |-> None,
                                 refs |-> Some(<<IF fetch.form = "WriteOne"
                                                 THEN MutItem(Cast(fetch.storage.meta.dyn_ctor, wild),
                                                              TicksOf(fetch, cell))
                                                 ELSE RefItem(Cast(fetch.storage.meta.dyn_ctor, wild))>>)]
          ELSE /\ item' = [traits |-> None, refs |-> Some(<<got>>)]
               /\ UNCHANGED fault
    /\ cur' = [cur EXCEPT !.index = Some(archetype_index)]
    /\ UNCHANGED <<registry, sparse_sets, entities, one_state, all_state, fetch>>

\* ReadTraitFetch::set_table / WriteTraitFetch::set_table, called on the table of an
\* archetype the matching predicate accepted (the dense path of the host).
OneFetchSetTable(table) ==
    /\ fault = "none"
    /\ fetch.form \in {"ReadOne", "WriteOne"}
    /\ \E a \in Archetypes :
          /\ OneMatchesComponentSet(Unwrap(one_state[fetch.trait]), a)
          /\ table = TableId(a)
    /\ LET state == Unwrap(one_state[fetch.trait])
           done == IF fetch.form = "WriteOne"
                   THEN WriteSetTable(state, table, fetch.storage)
                   ELSE ReadSetTable(state, table, fetch.storage)
       IN /\ fetch' = [fetch EXCEPT !.storage = done.storage]
          /\ IF done.unreachable
             THEN fault' \in UnreachableFaults
             ELSE UNCHANGED fault
    /\ cur' = NoCur
    /\ item' = NoItem
    /\ UNCHANGED <<registry, sparse_sets, entities, one_state, all_state>>

\* ReadTraitFetch::table_fetch / WriteTraitFetch::table_fetch, called by the host
\* after set_table for a row of that table.
OneFetchTableFetch(table_row) ==
    /\ fault = "none"
    /\ fetch.form \in {"ReadOne", "WriteOne"}
    /\ fetch.storage.tag = "Table"
    /\ fetch.storage.entity_rows = <<>>
    /\ table_row \in 0..(Len(TableEntities(fetch.storage.column.table)) - 1)
    /\ LET got == OneTableFetch(fetch, table_row)
       IN IF got = Unreachable
          THEN /\ fault' \in UnreachableFaults
               /\ item' = NoItem
          ELSE /\ item' = [traits |-> None, refs |-> Some(<<got>>)]
               /\ UNCHANGED fault
    /\ UNCHANGED <<registry, sparse_sets, entities, one_state, all_state, fetch, cur>>

\* ReadAllTraitsFetch::init
ReadAllTraitsFetchInit(t) ==
    /\ fault = "none"
    /\ fetch = Idle
    /\ IsSome(all_state[t])
    /\ fetch' = [form |-> "ReadAll", trait |-> t, entity_table_rows |-> None, table |-> None,
                 last_change_tick |-> 0, change_tick |-> 0]
    /\ cur' = NoCur
    /\ item' = NoItem
    /\ UNCHANGED <<registry, sparse_sets, entities, one_state, all_state, fault>>

\* WriteAllTraitsFetch::init
WriteAllTraitsFetchInit(t, last_change_tick, change_tick) ==
    /\ fault = "none"
    /\ fetch = Idle
    /\ IsSome(all_state[t])
    /\ fetch' = [form |-> "WriteAll", trait |-> t, entity_table_rows |-> None, table |-> None,
                 last_change_tick |-> last_change_tick, change_tick |-> change_tick]
    /\ cur' = NoCur
    /\ item' = NoItem
    /\ UNCHANGED <<registry, sparse_sets, entities, one_state, all_state, fault>>

\* ReadAllTraitsFetch::set_archetype / WriteAllTraitsFetch::set_archetype, called by
\* the host on an archetype its matching predicate accepted.
AllFetchSetArchetype(a) ==
    /\ fault = "none"
    /\ fetch.form \in {"ReadAll", "WriteAll"}
    /\ a \in Archetypes
    /\ AllMatchesComponentSet(Unwrap(all_state[fetch.trait]), a)
    /\ fetch' = [fetch EXCEPT !.entity_table_rows = Some(EntityTableRows(a)),
                              !.table = Some(TableId(a))]
    /\ cur' = [archetype |-> Some(a), index |-> None]
    /\ item' = NoItem
    /\ UNCHANGED <<registry, sparse_sets, entities, one_state, all_state, fault>>

\* ReadAllTraitsFetch::archetype_fetch / WriteAllTraitsFetch::archetype_fetch, called
\* by the host after set_archetype for an entity of that archetype.
AllFetchArchetypeFetch(archetype_index) ==
    /\ fault = "none"
    /\ fetch.form \in {"ReadAll", "WriteAll"}
    /\ IsSome(cur.archetype)
    /\ archetype_index \in 0..(Len(ArchetypeEntities(Unwrap(cur.archetype))) - 1)
    /\ LET got == AllArchetypeFetch(fetch, archetype_index)
       IN IF got = Unreachable
          THEN /\ fault' \in UnreachableFaults
               /\ item' = NoItem
          ELSE /\ item' = [traits |-> Some(got), refs |-> None]
               /\ UNCHANGED fault
    /\ cur' = [cur EXCEPT !.index = Some(archetype_index)]
    /\ UNCHANGED <<registry, sparse_sets, entities, one_state, all_state, fetch>>

\* The ways an item of an All fetch is iterated: by value (into_iter(self), which
\* moves the item), by shared reference (&ReadTraits, &WriteTraits: shared
\* references are yielded) and by mutable reference (&mut WriteTraits).
IterationModes == {"self", "ref", "mut"}

\* The caller iterates the ReadTraits / WriteTraits item to its end (into_iter, then
\* next until None); the iterators read the registry of the world.
TraitsIterate(how) ==
    /\ fault = "none"
    /\ IsSome(item.traits)
    /\ how = "mut" => Unwrap(item.traits).write
    /\ LET traits == Unwrap(item.traits)
           view == [traits EXCEPT !.write = @ /\ how # "ref"]
           yielded == CollectChain(TraitsIntoIter(view, Unwrap(registry[traits.trait]), sparse_sets))
       IN IF Contains(yielded, Unreachable)
          THEN /\ fault' \in UnreachableFaults
               /\ UNCHANGED item
          ELSE /\ item' = [traits |-> IF how = "self" THEN None ELSE item.traits,
                           refs |-> Some(yielded)]
               /\ UNCHANGED fault
    /\ UNCHANGED <<registry, sparse_sets, entities, one_state, all_state, fetch, cur>>

\* The forms of trait query and the query state each is built on.
OneForms == {"ReadOne", "WriteOne"}
AllForms == {"ReadAll", "WriteAll"}
WriteForms == {"WriteOne", "WriteAll"}
StateOf(form, t) == IF form \in OneForms THEN one_state[t] ELSE all_state[t]

\* Fetch::update_component_access of the four forms, called by the host while it
\* composes a query, after the query state was built.
UpdateComponentAccess(form, t) ==
    /\ fault = "none"
    /\ fetch = Idle
    /\ IsSome(StateOf(form, t))
    /\ LET components == Unwrap(StateOf(form, t)).components
           declared == IF form \in WriteForms
                       THEN WriteUpdateComponentAccess(components, access, 1)
                       ELSE ReadUpdateComponentAccess(components, access, 1)
       IN /\ access' = declared.access
          /\ fault' = IF declared.panic THEN "panic_access_conflict" ELSE "none"
    /\ UNCHANGED <<registry, sparse_sets, entities, one_state, all_state, fetch, cur, item>>

\* Another term of the same query declares its access first: &C adds a read and
\* &mut C a write; the host's own assertions rule out the conflicting ones.
HostAddRead(C) ==
    /\ fault = "none"
    /\ fetch = Idle
    /\ ~HasWrite(access, ComponentIdOf(C))
    /\ access' = AddRead(access, ComponentIdOf(C))
    /\ UNCHANGED <<registry, sparse_sets, entities, one_state, all_state, fetch, cur, item, fault>>

HostAddWrite(C) ==
    /\ fault = "none"
    /\ fetch = Idle
    /\ ~HasRead(access, ComponentIdOf(C))
    /\ access' = AddWrite(access, ComponentIdOf(C))
    /\ UNCHANGED <<registry, sparse_sets, entities, one_state, all_state, fetch, cur, item, fault>>

\* The host starts composing another query: FilteredAccess::default().
NewQuery ==
    /\ fault = "none"
    /\ fetch = Idle
    /\ access # DefaultAccess
    /\ access' = DefaultAccess
    /\ UNCHANGED <<registry, sparse_sets, entities, one_state, all_state, fetch, cur, item, fault>>

\* The fetch value is dropped when the query iteration ends.
FetchDrop ==
    /\ fault = "none"
    /\ fetch # Idle
    /\ fetch' = Idle
    /\ cur' = NoCur
    /\ item' = NoItem
    /\ UNCHANGED <<registry, sparse_sets, entities, one_state, all_state, fault>>

\* Whether the query state of a form accepts an archetype.
MatchesComponentSet(form, state, archetype) ==
    IF form \in OneForms THEN OneMatchesComponentSet(state, archetype)
    ELSE AllMatchesComponentSet(state, archetype)

\* QueryState::new_archetype of the host, for each archetype of the set in turn: an
\* archetype the state accepts is recorded as matched and the fetch declares its
\* accesses to it.
RECURSIVE NewArchetypes(_, _)
NewArchetypes(q, archetypes) ==
    IF archetypes = {} THEN q
    ELSE LET archetype == CHOOSE a \in archetypes : TRUE
             state == Unwrap(StateOf(q.form, q.trait))
             visited == [q EXCEPT !.seen = @ \cup {archetype}]
             declared ==
                 IF ~MatchesComponentSet(q.form, state, archetype) THEN visited
                 ELSE [visited EXCEPT
                          !.matched = @ \cup {archetype},
                          !.archetype_component_access =
                              IF q.form \in WriteForms
                              THEN WriteUpdateArchetypeComponentAccess(state.components, archetype, @, 1)
                              ELSE ReadUpdateArchetypeComponentAccess(state.components, archetype, @, 1)]
         IN NewArchetypes(declared, archetypes \ {archetype})

\* QueryState::new of the host for a query made of one trait-query term, the query
\* state being built already: the component access is declared from an empty
\* FilteredAccess, then every archetype of the world is visited.
QueryStateNew(form, t) ==
    /\ fault = "none"
    /\ fetch = Idle
    /\ IsSome(StateOf(form, t))
    /\ Len(queries) < MaxQueries
    /\ LET components == Unwrap(StateOf(form, t)).components
           declared == IF form \in WriteForms
                       THEN WriteUpdateComponentAccess(components, DefaultAccess, 1)
                       ELSE ReadUpdateComponentAccess(components, DefaultAccess, 1)
           q == [form |-> form, trait |-> t,
                 component_access |-> declared.access,
                 seen |-> {}, matched |-> {},
                 archetype_component_access |-> DefaultAccess]
       IN IF declared.panic
          THEN /\ fault' = "panic_access_conflict"
               /\ UNCHANGED queries
          ELSE /\ queries' = Append(queries, NewArchetypes(q, Archetypes))
               /\ UNCHANGED fault
    /\ UNCHANGED <<registry, sparse_sets, entities, one_state, all_state, fetch, cur, item>>

\* QueryState::update_archetypes of the host, before the k-th query runs: the
\* archetypes created since its last visit are visited.
QueryUpdateArchetypes(k) ==
    /\ fault = "none"
    /\ fetch = Idle
    /\ k \in DOMAIN queries
    /\ Archetypes \ queries[k].seen # {}
    /\ queries' = [queries EXCEPT ![k] = NewArchetypes(@, Archetypes \ queries[k].seen)]
    /\ UNCHANGED <<registry, sparse_sets, entities, one_state, all_state, fetch, cur, item, fault>>

(***************************************************************************)
(* Specifications                                                          *)
(***************************************************************************)
\* The record of a call: what was called, with which argument, and the registry
\* (or access) it found.
CallOf(op, t, arg, before) == [op |-> op, trait |-> t, arg |-> arg, before |-> before]

\* Registration and query-state construction, every call recorded.
NextRegistry ==
    \/ \E C \in Types :
          /\ RegisterComponentAs(MainTrait, C)
          /\ last_call' = CallOf("register", MainTrait, C, registry[MainTrait])
          /\ UNCHANGED <<access, queries>>
    \/ /\ OneQueryStateInit(MainTrait)
       /\ last_call' = CallOf("one_init", MainTrait, "", registry[MainTrait])
       /\ UNCHANGED <<access, queries>>
    \/ /\ AllQueryStateInit(MainTrait)
       /\ last_call' = CallOf("all_init", MainTrait, "", registry[MainTrait])
       /\ UNCHANGED <<access, queries>>

SpecRegistry == Init /\ [][NextRegistry]_vars

\* Query composition: registration, query states, and the access declarations of one
\* query at a time, every declaration of a trait query recorded.
NextAccess ==
    \/ \E C \in Types : RegisterComponentAs(MainTrait, C) /\ UNCHANGED <<access, last_call, queries>>
    \/ OneQueryStateInit(MainTrait) /\ UNCHANGED <<access, last_call, queries>>
    \/ AllQueryStateInit(MainTrait) /\ UNCHANGED <<access, last_call, queries>>
    \/ \E C \in Types : HostAddRead(C) /\ last_call' = CallOf("host_access", "", "", None) /\ UNCHANGED queries
    \/ \E C \in Types : HostAddWrite(C) /\ last_call' = CallOf("host_access", "", "", None) /\ UNCHANGED queries
    \/ \E form \in OneForms \cup AllForms :
          /\ UpdateComponentAccess(form, MainTrait)
          /\ last_call' = CallOf("update_component_access", MainTrait, form, Some(access))
          /\ UNCHANGED queries
    \/ NewQuery /\ last_call' = CallOf("host_access", "", "", None) /\ UNCHANGED queries

SpecAccess == Init /\ [][NextAccess]_vars

\* The single-match life cycle: registration, spawning, One query states and fetches.
NextOne ==
    \/ \E C \in Types : RegisterComponentAs(MainTrait, C) /\ UNCHANGED <<access, last_call, queries>>
    \/ \E cs \in SUBSET Types : Spawn(cs) /\ UNCHANGED <<access, last_call, queries>>
    \/ OneQueryStateInit(MainTrait) /\ UNCHANGED <<access, last_call, queries>>
    \/ ReadTraitFetchInit(MainTrait) /\ UNCHANGED <<access, last_call, queries>>
    \/ \E tp \in TickPairs : WriteTraitFetchInit(MainTrait, tp[1], tp[2]) /\ UNCHANGED <<access, last_call, queries>>
    \/ \E a \in Archetypes : OneFetchSetArchetype(a) /\ UNCHANGED <<access, last_call, queries>>
    \/ \E i \in 0..(MaxEntities - 1) : OneFetchArchetypeFetch(i) /\ UNCHANGED <<access, last_call, queries>>
    \/ FetchDrop /\ UNCHANGED <<access, last_call, queries>>

SpecOne == Init /\ [][NextOne]_vars

\* The all-matches life cycle: registration, spawning, All query states and fetches.
NextAll ==
    \/ \E C \in Types : RegisterComponentAs(MainTrait, C) /\ UNCHANGED <<access, last_call, queries>>
    \/ \E cs \in SUBSET Types : Spawn(cs) /\ UNCHANGED <<access, last_call, queries>>
    \/ AllQueryStateInit(MainTrait) /\ UNCHANGED <<access, last_call, queries>>
    \/ ReadAllTraitsFetchInit(MainTrait) /\ UNCHANGED <<access, last_call, queries>>
    \/ \E tp \in TickPairs : WriteAllTraitsFetchInit(MainTrait, tp[1], tp[2]) /\ UNCHANGED <<access, last_call, queries>>
    \/ \E a \in Archetypes : AllFetchSetArchetype(a) /\ UNCHANGED <<access, last_call, queries>>
    \/ \E i \in 0..(MaxEntities - 1) : AllFetchArchetypeFetch(i) /\ UNCHANGED <<access, last_call, queries>>
    \/ \E how \in IterationModes : TraitsIterate(how) /\ UNCHANGED <<access, last_call, queries>>
    \/ FetchDrop /\ UNCHANGED <<access, last_call, queries>>

SpecAll == Init /\ [][NextAll]_vars

\* The component types registered and spawned when several queries are put side by
\* side: one of each storage type.
ScheduleTypes == {"TabA", "SpA"}

\* Several queries side by side: registration, spawning, query states, and the
\* accesses each query declares for the scheduler.
NextSchedule ==
    \/ \E C \in ScheduleTypes : RegisterComponentAs(MainTrait, C) /\ UNCHANGED <<access, last_call, queries>>
    \/ \E cs \in SUBSET ScheduleTypes : Spawn(cs) /\ UNCHANGED <<access, last_call, queries>>
    \/ OneQueryStateInit(MainTrait) /\ UNCHANGED <<access, last_call, queries>>
    \/ AllQueryStateInit(MainTrait) /\ UNCHANGED <<access, last_call, queries>>
    \/ \E form \in OneForms \cup AllForms : QueryStateNew(form, MainTrait) /\ UNCHANGED <<access, last_call>>
    \/ \E k \in 1..MaxQueries : QueryUpdateArchetypes(k) /\ UNCHANGED <<access, last_call>>

SpecSchedule == Init /\ [][NextSchedule]_vars

\* The component types registered and spawned when the traversals of an item are
\* recorded: one with Table storage and both with SparseSet storage.
IterateTypes == {"TabA", "SpA", "SpB"}

\* The all-matches life cycle with every traversal of an item recorded: how the item
\* was iterated and the item (with what the traversal before yielded) it found.
NextIterate ==
    \/ \E C \in IterateTypes : RegisterComponentAs(MainTrait, C) /\ last_call' = NoCall /\ UNCHANGED <<access, queries>>
    \/ \E cs \in SUBSET IterateTypes : Spawn(cs) /\ last_call' = NoCall /\ UNCHANGED <<access, queries>>
    \/ AllQueryStateInit(MainTrait) /\ last_call' = NoCall /\ UNCHANGED <<access, queries>>
    \/ ReadAllTraitsFetchInit(MainTrait) /\ last_call' = NoCall /\ UNCHANGED <<access, queries>>
    \/ \E tp \in TickPairs : WriteAllTraitsFetchInit(MainTrait, tp[1], tp[2]) /\ last_call' = NoCall /\ UNCHANGED <<access, queries>>
    \/ \E a \in Archetypes : AllFetchSetArchetype(a) /\ last_call' = NoCall /\ UNCHANGED <<access, queries>>
    \/ \E i \in 0..(MaxEntities - 1) : AllFetchArchetypeFetch(i) /\ last_call' = NoCall /\ UNCHANGED <<access, queries>>
    \/ \E how \in IterationModes :
          /\ TraitsIterate(how)
          /\ last_call' = CallOf("into_iter", MainTrait, how, Some(item))
          /\ UNCHANGED <<access, queries>>
    \/ FetchDrop /\ last_call' = NoCall /\ UNCHANGED <<access, queries>>

SpecIterate == Init /\ [][NextIterate]_vars

\* The component types registered and spawned on the dense path: both with Table
\* storage and one with SparseSet storage.
DenseTypes == {"TabA", "TabB", "SpA"}

\* The single-match fetch driven table by table, every set_table and table_fetch
\* recorded with the fetch it found.
NextDense ==
    \/ \E C \in DenseTypes : RegisterComponentAs(MainTrait, C) /\ last_call' = NoCall /\ UNCHANGED <<access, queries>>
    \/ \E cs \in SUBSET DenseTypes : Spawn(cs) /\ last_call' = NoCall /\ UNCHANGED <<access, queries>>
    \/ OneQueryStateInit(MainTrait) /\ last_call' = NoCall /\ UNCHANGED <<access, queries>>
    \/ ReadTraitFetchInit(MainTrait) /\ last_call' = NoCall /\ UNCHANGED <<access, queries>>
    \/ \E tp \in TickPairs : WriteTraitFetchInit(MainTrait, tp[1], tp[2]) /\ last_call' = NoCall /\ UNCHANGED <<access, queries>>
    \/ \E table \in SUBSET TableTypes :
          /\ OneFetchSetTable(table)
          /\ last_call' = CallOf("set_table", MainTrait, table, Some(fetch))
          /\ UNCHANGED <<access, queries>>
    \/ \E row \in 0..(MaxEntities - 1) :
          /\ OneFetchTableFetch(row)
          /\ last_call' = CallOf("table_fetch", MainTrait, row, Some(fetch))
          /\ UNCHANGED <<access, queries>>
    \/ FetchDrop /\ last_call' = NoCall /\ UNCHANGED <<access, queries>>

SpecDense == Init /\ [][NextDense]_vars

\* The component types registered and spawned when all four fetch forms are driven
\* side by side: one of each storage type.
FetchTypes == {"TabA", "SpA"}

\* Every fetch operation of every form: registration, spawning, both query states,
\* the four fetches driven archetype by archetype and (single-match) table by table,
\* and the traversal of All items; set_table and table_fetch are recorded with the
\* fetch they found.
NextFetch ==
    \/ \E C \in FetchTypes : RegisterComponentAs(MainTrait, C) /\ last_call' = NoCall /\ UNCHANGED <<access, queries>>
    \/ \E cs \in SUBSET FetchTypes : Spawn(cs) /\ last_call' = NoCall /\ UNCHANGED <<access, queries>>
    \/ OneQueryStateInit(MainTrait) /\ last_call' = NoCall /\ UNCHANGED <<access, queries>>
    \/ AllQueryStateInit(MainTrait) /\ last_call' = NoCall /\ UNCHANGED <<access, queries>>
    \/ ReadTraitFetchInit(MainTrait) /\ last_call' = NoCall /\ UNCHANGED <<access, queries>>
    \/ \E tp \in TickPairs : WriteTraitFetchInit(MainTrait, tp[1], tp[2]) /\ last_call' = NoCall /\ UNCHANGED <<access, queries>>
    \/ ReadAllTraitsFetchInit(MainTrait) /\ last_call' = NoCall /\ UNCHANGED <<access, queries>>
    \/ \E tp \in TickPairs : WriteAllTraitsFetchInit(MainTrait, tp[1], tp[2]) /\ last_call' = NoCall /\ UNCHANGED <<access, queries>>
    \/ \E a \in Archetypes : OneFetchSetArchetype(a) /\ last_call' = NoCall /\ UNCHANGED <<access, queries>>
    \/ \E i \in 0..(MaxEntities - 1) : OneFetchArchetypeFetch(i) /\ last_call' = NoCall /\ UNCHANGED <<access, queries>>
    \/ \E table \in SUBSET TableTypes :
          /\ OneFetchSetTable(table)
          /\ last_call' = CallOf("set_table", MainTrait, table, Some(fetch))
          /\ UNCHANGED <<access, queries>>
    \/ \E row \in 0..(MaxEntities - 1) :
          /\ OneFetchTableFetch(row)
          /\ last_call' = CallOf("table_fetch", MainTrait, row, Some(fetch))
          /\ UNCHANGED <<access, queries>>
    \/ \E a \in Archetypes : AllFetchSetArchetype(a) /\ last_call' = NoCall /\ UNCHANGED <<access, queries>>
    \/ \E i \in 0..(MaxEntities - 1) : AllFetchArchetypeFetch(i) /\ last_call' = NoCall /\ UNCHANGED <<access, queries>>
    \/ \E how \in IterationModes : TraitsIterate(how) /\ last_call' = NoCall /\ UNCHANGED <<access, queries>>
    \/ FetchDrop /\ last_call' = NoCall /\ UNCHANGED <<access, queries>>

SpecFetch == Init /\ [][NextFetch]_vars

\* The component types registered when two traits are used side by side: one of
\* each storage type.
TraitsTypes == {"TabA", "SpA"}

\* Two traits in one world: registration and query-state construction for either,
\* every call recorded with the registry of its own trait as it found it.
NextTraits ==
    \/ \E t \in Traits, C \in TraitsTypes :
          /\ RegisterComponentAs(t, C)
          /\ last_call' = CallOf("register", t, C, registry[t])
          /\ UNCHANGED <<access, queries>>
    \/ \E t \in Traits :
          /\ OneQueryStateInit(t)
          /\ last_call' = CallOf("one_init", t, "", registry[t])
          /\ UNCHANGED <<access, queries>>
    \/ \E t \in Traits :
          /\ AllQueryStateInit(t)
          /\ last_call' = CallOf("all_init", t, "", registry[t])
          /\ UNCHANGED <<access, queries>>

SpecTraits == Init /\ [][NextTraits]_vars

(***************************************************************************)
(* Properties                                                              *)
(***************************************************************************)
Range(seq) == {seq[i] : i \in DOMAIN seq}

\* The entity the host last fetched: the one at the fetched index of the archetype.
CurEntity == ArchetypeEntities(Unwrap(cur.archetype))[Unwrap(cur.index) + 1]

\* The components registered for the main trait, in registration order.
Registered == RegistryOrDefault(MainTrait).components

\* The reference is entity e's instance of component C, seen through C's vtable.
Addresses(ref, C, e) ==
    /\ Pointee(ref.value.ptr) = Some([comp |-> C, entity |-> e])
    /\ ref.value.ctor = C

\* C1 (as claimed): whenever a One fetch (read or write) has fetched an entity that
\* holds exactly one registered component, it produced exactly one reference, which
\* addresses that entity's instance of that component, whatever else is in the world.
C1_SingleMatchExclusive ==
    (fetch.form \in OneForms /\ IsSome(cur.index)) =>
        LET e == CurEntity
            matching == Range(Registered) \cap entities[e]
        IN Cardinality(matching) = 1 =>
              /\ fault = "none"
              /\ IsSome(item.refs)
              /\ Len(Unwrap(item.refs)) = 1
              /\ \A C \in matching : Addresses(Unwrap(item.refs)[1], C, e)

\* The references an All fetch must yield for entity e: the present table components
\* in registration order, then the present sparse components in registration order.
ExpectedAll(components, e) ==
    LET PresentTable(c) == c \in TableTypes /\ c \in entities[e]
        PresentSparse(c) == c \in SparseTypes /\ c \in entities[e]
    IN SelectSeq(components, PresentTable) \o SelectSeq(components, PresentSparse)

\* C2: iterating the item of an All fetch (ReadTraits or WriteTraits) yields exactly
\* one reference per registered component the entity holds and none for the others,
\* table components first, then sparse ones, each group in registration order.
C2_AllMatchCompleteInOrder ==
    (fetch.form \in AllForms /\ IsSome(cur.index) /\ IsSome(item.refs)) =>
        LET e == CurEntity
            components == Unwrap(all_state[fetch.trait]).components
            expected == ExpectedAll(components, e)
            refs == Unwrap(item.refs)
        IN /\ Len(refs) = Cardinality(Range(components) \cap entities[e])
           /\ Len(refs) = Len(expected)
           /\ \A k \in DOMAIN refs : Addresses(refs[k], expected[k], e)

\* C2 witness: a write iteration over an entity holding all four registered
\* components, the first registered of which is a sparse one, has completed.
C2_Witness ==
    /\ fetch.form = "WriteAll"
    /\ IsSome(item.refs)
    /\ Len(Unwrap(item.refs)) = 4
    /\ Registered[1] \in SparseTypes
    /\ fault = "none"

\* C3 (as claimed): every register call made on a sealed registry ends in the panic.
C3_EveryLateRegisterRejected ==
    (last_call.op = "register" /\ IsSome(last_call.before) /\ Unwrap(last_call.before).sealed)
        => fault = "panic_late_registration"

\* C3 (amended): a register call made on a sealed registry panics exactly when the
\* component it names is not registered yet, and in both cases leaves the registry
\* as it was; no fetch needs to have run.
C3_NewLateRegisterRejected ==
    (last_call.op = "register" /\ IsSome(last_call.before) /\ Unwrap(last_call.before).sealed)
        => /\ (fault = "panic_late_registration")
                <=> ~(ComponentIdOf(last_call.arg) \in Range(Unwrap(last_call.before).components))
           /\ registry[last_call.trait] = last_call.before

\* C3 witness: a registration of a new component after a query state was built, with
\* no fetch ever made, has panicked.
C3_Witness ==
    /\ last_call.op = "register"
    /\ fault = "panic_late_registration"
    /\ IsSome(one_state[MainTrait]) \/ IsSome(all_state[MainTrait])
    /\ fetch = Idle

\* C4 (as claimed): a write-form declaration made when some registered component
\* already has a read or a write access declared ends in the access-conflict panic.
C4_WriteConflictsWithAnyAccess ==
    (last_call.op = "update_component_access" /\ last_call.arg \in WriteForms
        /\ \E c \in Range(Unwrap(StateOf(last_call.arg, last_call.trait)).components) :
              HasRead(Unwrap(last_call.before), c))
        => fault = "panic_access_conflict"

\* C5 (as claimed): no legitimate call sequence reaches debug_unreachable.
C5_NeverDebugUnreachable == fault \notin UnreachableFaults

\* C6: the One matching predicate accepts a component set iff exactly one registered
\* component identifier is in it, so the archetype a One fetch is set to holds
\* exactly one registered component.
C6_OneMatchesExactlyOne ==
    /\ \A t \in Traits : IsSome(one_state[t]) =>
          \A set \in SUBSET Types :
              OneMatchesComponentSet(Unwrap(one_state[t]), set)
                  <=> Cardinality(Range(Unwrap(one_state[t]).components) \cap set) = 1
    /\ (fetch.form \in OneForms /\ IsSome(cur.archetype)) =>
          Cardinality(Range(Registered) \cap Unwrap(cur.archetype)) = 1

\* C6 witness: a One fetch was set to an archetype while the world also holds an
\* archetype with two or more registered components.
C6_Witness ==
    /\ fetch.form \in OneForms
    /\ IsSome(cur.archetype)
    /\ \E a \in Archetypes : Cardinality(Range(Registered) \cap a) >= 2

\* C7: the All matching predicate accepts a component set iff at least one registered
\* component identifier is in it.
C7_AllMatchesAtLeastOne ==
    /\ \A t \in Traits : IsSome(all_state[t]) =>
          \A set \in SUBSET Types :
              AllMatchesComponentSet(Unwrap(all_state[t]), set)
                  <=> Range(Unwrap(all_state[t]).components) \cap set # {}
    /\ (fetch.form \in AllForms /\ IsSome(cur.archetype)) =>
          Range(Registered) \cap Unwrap(cur.archetype) # {}

\* C7 witness: an All fetch was set to an archetype with two registered components
\* while the world also holds an archetype with none.
C7_Witness ==
    /\ fetch.form \in AllForms
    /\ IsSome(cur.archetype)
    /\ Cardinality(Range(Registered) \cap Unwrap(cur.archetype)) >= 2
    /\ \E a \in Archetypes : Range(Registered) \cap a = {}

\* C8: building a One or All query state for a trait that has no registry panics and
\* builds nothing: a query state exists only for a trait that has a registry.
C8_UnregisteredBuildFails ==
    /\ (last_call.op \in {"one_init", "all_init"} /\ last_call.before = None) =>
          /\ fault = "panic_no_registry"
          /\ one_state[last_call.trait] = None
          /\ all_state[last_call.trait] = None
    /\ \A t \in Traits :
          (IsSome(one_state[t]) \/ IsSome(all_state[t])) => IsSome(registry[t])

\* C8 witness: a query state was asked for before any registration.
C8_Witness ==
    /\ last_call.op \in {"one_init", "all_init"}
    /\ last_call.before = None
    /\ fault = "panic_no_registry"

\* C9: a register call that names an already registered component on an unsealed
\* registry leaves the registry (the six sequences, hence the component count) as
\* it was.
C9_RegisterTwiceUnchanged ==
    (last_call.op = "register" /\ IsSome(last_call.before)
        /\ ~Unwrap(last_call.before).sealed
        /\ ComponentIdOf(last_call.arg) \in Range(Unwrap(last_call.before).components))
        => /\ registry[last_call.trait] = last_call.before
           /\ Len(Unwrap(registry[last_call.trait]).components)
                = Len(Unwrap(last_call.before).components)
           /\ fault = "none"

\* C9 witness: a second registration of a component on an unsealed registry that
\* holds three components.
C9_Witness ==
    /\ last_call.op = "register"
    /\ IsSome(last_call.before)
    /\ ~Unwrap(last_call.before).sealed
    /\ ComponentIdOf(last_call.arg) \in Range(Unwrap(last_call.before).components)
    /\ Len(Unwrap(last_call.before).components) = 3

\* C10 (as claimed): every constructor a fetch applied was applied to a pointer into
\* the storage of the constructor's own component type, at a multiple of that
\* type's size, and never to the data of another component type.
C10_CtorMatchesStorage ==
    IsSome(item.refs) =>
        \A k \in DOMAIN Unwrap(item.refs) :
            LET ref == Unwrap(item.refs)[k].value
            IN /\ ref.ptr.comp = ref.ctor
               /\ ref.ptr.off % SizeOf(ref.ctor) = 0
               /\ IsSome(Pointee(ref.ptr)) => Unwrap(Pointee(ref.ptr)).comp = ref.ctor

\* C10, outside undefined behaviour: the same, in every state that was not reached
\* through unreachable_unchecked.
C10_CtorMatchesStorageUnlessUndefined ==
    fault # "undefined_behaviour" => C10_CtorMatchesStorage

\* The read forms of trait query.
ReadForms == {"ReadOne", "ReadAll"}

\* C11: a read-form declaration panics exactly when a write access to one of the
\* registered components was declared before it in the same query; otherwise it
\* succeeds, adds a read of every registered component and no write, so that read
\* declarations over the same components coexist.
C11_ReadDeclaration ==
    (last_call.op = "update_component_access" /\ last_call.arg \in ReadForms) =>
        LET components == Range(Unwrap(StateOf(last_call.arg, last_call.trait)).components)
            before == Unwrap(last_call.before)
        IN /\ (fault = "panic_access_conflict") <=> (\E c \in components : HasWrite(before, c))
           /\ fault = "none" =>
                /\ access.reads_and_writes = before.reads_and_writes \cup components
                /\ access.writes = before.writes

\* C11 witness: a read form declared its accesses after reads of all of its two or
\* more registered components had been declared, and did not panic.
C11_Witness ==
    /\ last_call.op = "update_component_access"
    /\ last_call.arg \in ReadForms
    /\ fault = "none"
    /\ Len(Unwrap(StateOf(last_call.arg, last_call.trait)).components) >= 2
    /\ Range(Unwrap(StateOf(last_call.arg, last_call.trait)).components)
          \subseteq Unwrap(last_call.before).reads_and_writes

\* C12: any two queries built on write forms of the same capability declare
\* conflicting accesses: each declares a write on every registered component, so
\* their component accesses are never compatible, and each declares a write on
\* every registered component of every archetype both have matched, so their
\* archetype accesses are not compatible once they share an archetype.
C12_WriteQueriesConflict ==
    \A i \in DOMAIN queries : \A j \in DOMAIN queries :
        (i # j /\ queries[i].form \in WriteForms /\ queries[j].form \in WriteForms
            /\ queries[i].trait = queries[j].trait) =>
            LET registered == Range(Unwrap(registry[queries[i].trait]).components)
            IN /\ queries[i].component_access.writes = registered
               /\ queries[j].component_access.writes = registered
               /\ ~IsCompatible(queries[i].component_access, queries[j].component_access)
               /\ \A a \in queries[i].matched \cap queries[j].matched :
                     /\ \A c \in registered \cap a :
                           /\ <<a, c>> \in queries[i].archetype_component_access.writes
                           /\ <<a, c>> \in queries[j].archetype_component_access.writes
                     /\ ~IsCompatible(queries[i].archetype_component_access,
                                      queries[j].archetype_component_access)

\* C12 witness: a write One query and a write All query have both matched an
\* archetype with one registered component, and the All query alone another one.
C12_Witness ==
    /\ Len(queries) = 2
    /\ queries[1].form = "WriteOne"
    /\ queries[2].form = "WriteAll"
    /\ queries[1].matched \cap queries[2].matched # {}
    /\ queries[2].matched \ queries[1].matched # {}

\* C13: once a query state was built for a capability its registry is sealed, and
\* from then on no step changes the registry; every query state built for the
\* capability holds the registry's components (and the One state its meta too).
C13_RegistryReadOnlyAfterSeal ==
    /\ [](\A t \in Traits :
            /\ IsSome(one_state[t]) \/ IsSome(all_state[t]) =>
                  IsSome(registry[t]) /\ Unwrap(registry[t]).sealed
            /\ IsSome(all_state[t]) =>
                  Unwrap(all_state[t]).components = Unwrap(registry[t]).components
            /\ IsSome(one_state[t]) =>
                  /\ Unwrap(one_state[t]).components = Unwrap(registry[t]).components
                  /\ Unwrap(one_state[t]).meta = Unwrap(registry[t]).meta)
    /\ [][\A t \in Traits :
            (IsSome(registry[t]) /\ Unwrap(registry[t]).sealed) => registry'[t] = registry[t]]_vars

\* C13 witness: after an All query state was built on two or more components, a
\* registration of a further component was attempted.
C13_Witness ==
    /\ IsSome(all_state[MainTrait])
    /\ Len(Unwrap(all_state[MainTrait]).components) >= 2
    /\ fault = "panic_late_registration"
    /\ entities # <<>>

\* The component and the entity a ComponentTicks cell belongs to, if any.
TicksOwner(cell) ==
    IF cell.store = "sparse" THEN
        IF cell.entity \in DOMAIN entities /\ cell.comp \in entities[cell.entity]
        THEN Some([comp |-> cell.comp, entity |-> cell.entity]) ELSE None
    ELSE IF cell.comp \in cell.table /\ cell.row < Len(TableEntities(cell.table))
    THEN Some([comp |-> cell.comp, entity |-> TableEntities(cell.table)[cell.row + 1]])
    ELSE None

\* C14 (as claimed): every mutable reference a write fetch (One or All) produced (a
\* write One fetch produces no other; a WriteTraits item also yields shared ones,
\* when iterated by shared reference) carries the ComponentTicks cell of the
\* component instance its value points to, and the last_change_tick and change_tick
\* the fetch was initialised with.
C14_WriteTicksBundled ==
    (fetch.form \in WriteForms /\ IsSome(item.refs)) =>
        \A k \in DOMAIN Unwrap(item.refs) :
            LET ref == Unwrap(item.refs)[k]
            IN /\ fetch.form = "WriteOne" => IsSome(ref.ticks)
               /\ IsSome(ref.ticks) =>
                     /\ IsSome(Pointee(ref.value.ptr))
                     /\ TicksOwner(Unwrap(ref.ticks).component_ticks) = Pointee(ref.value.ptr)
                     /\ Unwrap(ref.ticks).last_change_tick = fetch.last_change_tick
                     /\ Unwrap(ref.ticks).change_tick = fetch.change_tick

\* C14, outside undefined behaviour: the same, in every state that was not reached
\* through unreachable_unchecked.
C14_WriteTicksBundledUnlessUndefined ==
    fault # "undefined_behaviour" => C14_WriteTicksBundled

\* The trait objects of a yielded sequence, without the change-tracking part.
Values(refs) == [k \in DOMAIN refs |-> refs[k].value]

Advanced(it, j) == [it EXCEPT !.components = Rest(@, j), !.meta = Rest(@, j)]

\* C16: a traversal of an item yields at most |table_components| +
\* |sparse_components| references; at every position of either iterator a call of
\* next that yields consumes at least one registry entry and never gives one back,
\* and a call that reports the end leaves no entry, so that each entry is examined
\* at most once and the end is reported after at most as many calls as entries.
C16_IterationTerminates ==
    /\ (last_call.op = "into_iter" /\ fault = "none") =>
          Len(Unwrap(item.refs))
              <= Len(Unwrap(registry[last_call.trait]).table_components)
                 + Len(Unwrap(registry[last_call.trait]).sparse_components)
    /\ IsSome(item.traits) =>
          LET traits == Unwrap(item.traits)
              iter == TraitsIntoIter(traits, Unwrap(registry[traits.trait]), sparse_sets)
          IN /\ \A j \in 0..Len(iter.table.components) :
                   LET it == Advanced(iter.table, j)
                       n == TableTraitsIterNext(it)
                   IN /\ Len(n.components) <= Len(it.components)
                      /\ Len(n.meta) = Len(n.components)
                      /\ IsSome(n.yield) => Len(n.components) < Len(it.components)
                      /\ n.yield = None => n.components = <<>>
             /\ \A j \in 0..Len(iter.sparse.components) :
                   LET it == Advanced(iter.sparse, j)
                       n == SparseTraitsIterNext(it)
                   IN /\ Len(n.components) <= Len(it.components)
                      /\ Len(n.meta) = Len(n.components)
                      /\ IsSome(n.yield) => Len(n.components) < Len(it.components)
                      /\ n.yield = None => n.components = <<>>

\* C16 witness: a traversal has ended after fewer references than registry entries,
\* on a registry with table and sparse components.
C16_Witness ==
    /\ last_call.op = "into_iter"
    /\ fault = "none"
    /\ Unwrap(registry[last_call.trait]).table_components # <<>>
    /\ Len(Unwrap(registry[last_call.trait]).sparse_components) >= 2
    /\ Len(Unwrap(item.refs)) < Len(Unwrap(registry[last_call.trait]).components)

\* C17 (as claimed): a set_table call, of the read or of the write variant, on a
\* table that holds a registered component returns normally and leaves the fetch
\* with the Table storage of a registered column of that table and its meta.
C17_SetTableRecordsColumn ==
    (last_call.op = "set_table"
        /\ Range(Unwrap(one_state[last_call.trait]).components) \cap last_call.arg # {}) =>
        /\ fault = "none"
        /\ fetch.storage.tag = "Table"
        /\ fetch.storage.column.table = last_call.arg
        /\ fetch.storage.column.comp \in Range(Unwrap(one_state[last_call.trait]).components)
        /\ fetch.storage.meta = MetaOf(fetch.storage.column.comp)

\* C17, write variant alone: the same for WriteTraitFetch::set_table, and the
\* table_fetch after it addresses the row's instance of the recorded component.
C17_WriteSetTableRecordsColumn ==
    /\ fetch.form = "WriteOne" => C17_SetTableRecordsColumn
    /\ (last_call.op = "table_fetch" /\ fault = "none") =>
          LET ref == Unwrap(item.refs)[1]
              table == fetch.storage.column.table
          IN Pointee(ref.value.ptr)
                = Some([comp |-> fetch.storage.column.comp,
                        entity |-> TableEntities(table)[last_call.arg + 1]])

\* The component type a component identifier was given to.
TypeOf(component) == CHOOSE C \in Types : ComponentIdOf(C) = component

\* Two sequences of equal length, the i-th meta being that of the i-th component's type.
Aligned(components, meta) ==
    /\ Len(components) = Len(meta)
    /\ \A i \in DOMAIN components : meta[i] = MetaOf(TypeOf(components[i]))

\* C18: in every registry, components and meta, table_components and table_meta,
\* sparse_components and sparse_meta are aligned index by index, and so are the
\* components and meta of every OneQueryState.
C18_IndexAlignment ==
    \A t \in Traits :
        /\ IsSome(registry[t]) =>
              /\ Aligned(Unwrap(registry[t]).components, Unwrap(registry[t]).meta)
              /\ Aligned(Unwrap(registry[t]).table_components, Unwrap(registry[t]).table_meta)
              /\ Aligned(Unwrap(registry[t]).sparse_components, Unwrap(registry[t]).sparse_meta)
        /\ IsSome(one_state[t]) =>
              Aligned(Unwrap(one_state[t]).components, Unwrap(one_state[t]).meta)

\* C18 witness: a OneQueryState built on a registry of four components.
C18_Witness ==
    /\ IsSome(one_state[MainTrait])
    /\ Len(Unwrap(one_state[MainTrait]).components) = 4
    /\ Len(Unwrap(registry[MainTrait]).table_meta) = 2

\* C19: in every registry, table_components is the subsequence of components with
\* Table storage and sparse_components the subsequence with SparseSet storage, so
\* the two share nothing, together hold every component once and keep its order.
C19_StoragePartition ==
    \A t \in Traits : IsSome(registry[t]) =>
        LET r == Unwrap(registry[t])
            IsTable(c) == StorageType(TypeOf(c)) = "Table"
            IsSparse(c) == StorageType(TypeOf(c)) = "SparseSet"
        IN /\ r.table_components = SelectSeq(r.components, IsTable)
           /\ r.sparse_components = SelectSeq(r.components, IsSparse)
           /\ Range(r.table_components) \cap Range(r.sparse_components) = {}
           /\ Len(r.table_components) + Len(r.sparse_components) = Len(r.components)

\* C19 witness: a registry whose four components were registered with the storage
\* types interleaved: sparse, table, sparse, table.
C19_Witness ==
    /\ IsSome(registry[MainTrait])
    /\ Len(Unwrap(registry[MainTrait]).components) = 4
    /\ Unwrap(registry[MainTrait]).components[1] \in SparseTypes
    /\ Unwrap(registry[MainTrait]).components[2] \in TableTypes
    /\ Unwrap(registry[MainTrait]).components[3] \in SparseTypes

\* C20: no identifier is twice in components, and a register call on an unsealed
\* registry (or on none yet) leaves components as it was if it held the identifier
\* and appends the identifier at the end otherwise, so that components is the
\* sequence of distinct identifiers in the order of their first registration.
C20_RegistrationOrder ==
    /\ \A t \in Traits : IsSome(registry[t]) =>
          \A i, j \in DOMAIN Unwrap(registry[t]).components :
              Unwrap(registry[t]).components[i] = Unwrap(registry[t]).components[j] => i = j
    /\ (last_call.op = "register"
            /\ (IsSome(last_call.before) => ~Unwrap(last_call.before).sealed)) =>
          LET before == IF IsSome(last_call.before)
                        THEN Unwrap(last_call.before).components ELSE <<>>
              id == ComponentIdOf(last_call.arg)
          IN Unwrap(registry[last_call.trait]).components
                = IF Contains(before, id) THEN before ELSE Append(before, id)

\* C20 witness: a third, new component was registered on an unsealed registry that
\* held two.
C20_Witness ==
    /\ last_call.op = "register"
    /\ IsSome(last_call.before)
    /\ ~Unwrap(last_call.before).sealed
    /\ Len(Unwrap(last_call.before).components) = 2
    /\ Len(Unwrap(registry[MainTrait]).components) = 3

\* C21: a registry is created unsealed; seal() (run by both query-state
\* constructors) leaves a registry that differs from the one it found in nothing but
\* sealed = TRUE, hence leaves an already sealed registry as it was; and no step
\* takes sealed from TRUE back to FALSE.
C21_SealFlag ==
    /\ ~DefaultRegistry.sealed
    /\ []((last_call.op = "register" /\ last_call.before = None)
            => ~Unwrap(registry[last_call.trait]).sealed)
    /\ []((last_call.op \in {"one_init", "all_init"} /\ IsSome(last_call.before))
            => /\ registry[last_call.trait]
                    = Some([Unwrap(last_call.before) EXCEPT !.sealed = TRUE])
               /\ (Unwrap(last_call.before).sealed
                      => registry[last_call.trait] = last_call.before))
    /\ [][\A t \in Traits :
             (IsSome(registry[t]) /\ Unwrap(registry[t]).sealed)
                => (IsSome(registry'[t]) /\ Unwrap(registry'[t]).sealed)]_vars

\* C21 witness: a query state was built on a registry that was already sealed and
\* held two components.
C21_Witness ==
    /\ last_call.op = "all_init"
    /\ IsSome(last_call.before)
    /\ Unwrap(last_call.before).sealed
    /\ Len(Unwrap(last_call.before).components) = 2

\* C22: when update_component_access of a trait query has returned without
\* panicking, every component identifier of the query state is declared: read by
\* a read form, written by a write form, whatever entities exist.
C22_DeclarationCoversState ==
    (last_call.op = "update_component_access" /\ fault = "none") =>
        \A c \in Range(Unwrap(StateOf(last_call.arg, last_call.trait)).components) :
            IF last_call.arg \in WriteForms THEN HasWrite(access, c) ELSE HasRead(access, c)

\* C22 witness: a write form declared its accesses over a state of three components
\* and did not panic.
C22_Witness ==
    /\ last_call.op = "update_component_access"
    /\ last_call.arg \in WriteForms
    /\ fault = "none"
    /\ Len(Unwrap(StateOf(last_call.arg, last_call.trait)).components) = 3
    /\ access.writes = Range(Unwrap(StateOf(last_call.arg, last_call.trait)).components)

\* The component set the query state of the fetch in progress was built with: the
\* one used for archetype matching and for the access declaration.
Declared ==
    Range(Unwrap(StateOf(fetch.form, fetch.trait)).components)

\* The components whose storage the references of the current item address.
Touched ==
    IF IsSome(item.refs)
    THEN {Unwrap(item.refs)[i].value.ptr.comp : i \in DOMAIN Unwrap(item.refs)}
         \cup {Unwrap(Unwrap(item.refs)[i].ticks).component_ticks.comp :
                  i \in {j \in DOMAIN Unwrap(item.refs) : IsSome(Unwrap(item.refs)[j].ticks)}}
    ELSE {}

\* C23: the column or sparse set a One fetch holds, and every component cell a
\* reference produced by any of the four fetch forms addresses, belongs to a
\* component of the query state; and the table and sparse lists of the registry,
\* which the All iterators walk, hold exactly the identifiers of the AllQueryState.
C23_AccessedWithinDeclared ==
    /\ (fetch # Idle /\ fetch.form \in OneForms) =>
          /\ fetch.storage.tag = "Table" => fetch.storage.column.comp \in Declared
          /\ fetch.storage.tag = "SparseSet" => fetch.storage.components \in Declared
    /\ fetch # Idle => Touched \subseteq Declared
    /\ \A t \in Traits : IsSome(all_state[t]) =>
          Range(Unwrap(registry[t]).table_components)
             \cup Range(Unwrap(registry[t]).sparse_components)
                = Range(Unwrap(all_state[t]).components)

\* C23 outside undefined behaviour: the same, as long as no fetch has run into
\* unreachable_unchecked.
C23_AccessedWithinDeclaredUnlessUndefined ==
    fault # "undefined_behaviour" => C23_AccessedWithinDeclared

\* Whether the registry of capability t exists and is sealed.
Sealed(t) == IsSome(registry[t]) /\ Unwrap(registry[t]).sealed

\* C24: every step of a fetch (its creation, set_archetype, set_table,
\* archetype_fetch, table_fetch, the traversal of an All item, its drop) starts in
\* a state in which the registry of the fetch's capability is sealed, and the
\* registry is sealed for as long as a fetch exists.
C24_SealBeforeFetch ==
    /\ [](fetch # Idle => Sealed(fetch.trait))
    /\ [][(fetch' # fetch \/ cur' # cur \/ item' # item) =>
             Sealed(IF fetch # Idle THEN fetch.trait ELSE fetch'.trait)]_vars

\* C24 witness: a write All item was traversed, yielding two references, while a
\* One query state exists as well.
C24_Witness ==
    /\ fetch # Idle
    /\ fetch.form = "WriteAll"
    /\ IsSome(item.refs)
    /\ Len(Unwrap(item.refs)) = 2
    /\ IsSome(one_state[MainTrait])

\* The size registered with the component: size_bytes of its entry in the registry.
RegisteredSize(component) ==
    LET r == Unwrap(registry[MainTrait])
    IN r.meta[CHOOSE i \in DOMAIN r.components : r.components[i] = component].size_bytes

\* C25: a reference into a table column is the column's address plus
\* row * size_bytes, size_bytes being the registered size of the column's
\* component and row the table row of the entity: the archetype's
\* entity_table_rows entry at the archetype index in archetype_fetch, the given
\* table_row in table_fetch, and the item's table_row in the All iterators.
C25_PerEntityOffset ==
    /\ (fetch # Idle /\ fetch.form \in OneForms /\ fetch.storage.tag = "Table"
            /\ IsSome(cur.index) /\ IsSome(item.refs)) =>
          Unwrap(item.refs)[1].value.ptr
             = TablePtr(TableId(Unwrap(cur.archetype)), fetch.storage.column.comp,
                        EntityTableRows(Unwrap(cur.archetype))[Unwrap(cur.index) + 1]
                           * RegisteredSize(fetch.storage.column.comp))
    /\ (last_call.op = "table_fetch" /\ IsSome(item.refs)) =>
          Unwrap(item.refs)[1].value.ptr
             = TablePtr(fetch.storage.column.table, fetch.storage.column.comp,
                        last_call.arg * RegisteredSize(fetch.storage.column.comp))
    /\ (IsSome(item.traits) /\ IsSome(cur.index)) =>
          Unwrap(item.traits).table_row
             = EntityTableRows(Unwrap(cur.archetype))[Unwrap(cur.index) + 1]
    /\ (IsSome(item.traits) /\ IsSome(item.refs)) =>
          \A i \in DOMAIN Unwrap(item.refs) :
              Unwrap(item.refs)[i].value.ptr.kind = "table" =>
                 Unwrap(item.refs)[i].value.ptr
                    = TablePtr(Unwrap(item.traits).table, Unwrap(item.refs)[i].value.ptr.comp,
                               Unwrap(item.traits).table_row
                                  * RegisteredSize(Unwrap(item.refs)[i].value.ptr.comp))

\* C25 witness: archetype_fetch of a One fetch on the first entity of an archetype,
\* whose row in the table (shared with another archetype) is 1, not 0.
C25_Witness ==
    /\ fetch # Idle
    /\ fetch.form \in OneForms
    /\ fetch.storage.tag = "Table"
    /\ cur.index = Some(0)
    /\ IsSome(item.refs)
    /\ EntityTableRows(Unwrap(cur.archetype))[1] = 1
    /\ Unwrap(item.refs)[1].value.ptr.off > 0

\* C26: the mutable references one traversal of a WriteTraits item yields address
\* pairwise different component cells and carry pairwise different ticks cells:
\* every registered component of the entity is yielded at most once.
C26_NoAliasingInWriteIteration ==
    (last_call.op = "into_iter" /\ IsSome(item.refs)) =>
        LET refs == Unwrap(item.refs)
        IN \A i, j \in DOMAIN refs :
              (i # j /\ IsSome(refs[i].ticks) /\ IsSome(refs[j].ticks)) =>
                 /\ refs[i].value.ptr # refs[j].value.ptr
                 /\ Pointee(refs[i].value.ptr) # Pointee(refs[j].value.ptr)
                 /\ refs[i].value.ptr.comp # refs[j].value.ptr.comp
                 /\ Unwrap(refs[i].ticks).component_ticks # Unwrap(refs[j].ticks).component_ticks

\* C26 witness: a WriteTraits item was traversed by mutable reference and yielded
\* three mutable references.
C26_Witness ==
    /\ last_call.op = "into_iter"
    /\ last_call.arg = "mut"
    /\ IsSome(item.refs)
    /\ Len(Unwrap(item.refs)) = 3
    /\ \A i \in DOMAIN Unwrap(item.refs) : IsSome(Unwrap(item.refs)[i].ticks)

\* C27: a register call that panicked because the registry is sealed has left the
\* registry exactly as it found it: the six sequences and the sealed flag.
C27_FailedRegisterChangesNothing ==
    (last_call.op = "register" /\ fault = "panic_late_registration") =>
        /\ IsSome(last_call.before)
        /\ Unwrap(last_call.before).sealed
        /\ registry[last_call.trait] = last_call.before

\* C27 witness: a register call panicked on a sealed registry that holds one
\* component of each storage type.
C27_Witness ==
    /\ last_call.op = "register"
    /\ fault = "panic_late_registration"
    /\ Len(Unwrap(registry[MainTrait]).table_components) = 1
    /\ Len(Unwrap(registry[MainTrait]).sparse_components) = 1

\* C28: a register call or a query-state construction for one capability leaves
\* the registry of every other capability as it was, sequences and sealed flag; so
\* a first registration for a capability whose own registry is not sealed succeeds
\* whatever was built for the others.
C28_PerCapabilityIndependence ==
    /\ [][\A t \in Traits : last_call'.trait # t => registry'[t] = registry[t]]_vars
    /\ []((last_call.op = "register"
             /\ (IsSome(last_call.before) => ~Unwrap(last_call.before).sealed))
            => /\ fault = "none"
               /\ Contains(Unwrap(registry[last_call.trait]).components,
                           ComponentIdOf(last_call.arg)))

\* C28 witness: a component was registered for one capability, without a panic,
\* while the registry of the other capability is sealed and a query state of each
\* kind was built on it.
C28_Witness ==
    /\ last_call.op = "register"
    /\ last_call.trait = OtherTrait
    /\ fault = "none"
    /\ Len(Unwrap(registry[OtherTrait]).components) = 2
    /\ ~Unwrap(registry[OtherTrait]).sealed
    /\ IsSome(registry[MainTrait])
    /\ Unwrap(registry[MainTrait]).sealed
    /\ IsSome(one_state[MainTrait])
    /\ IsSome(all_state[MainTrait])

\* C29: the archetype accesses a query has declared are, for every archetype it
\* matched, those of exactly the components of its query state that the archetype
\* holds: all of them read (and none written) by a read form, all of them written
\* by a write form, and nothing for a component the archetype does not hold.
C29_ArchetypeDeclarationExact ==
    \A k \in DOMAIN queries :
        LET q == queries[k]
            components == Range(Unwrap(StateOf(q.form, q.trait)).components)
            held == {id \in q.matched \X components : id[2] \in id[1]}
        IN /\ q.archetype_component_access.reads_and_writes = held
           /\ q.archetype_component_access.writes
                 = IF q.form \in WriteForms THEN held ELSE {}

\* C29 witness: a read All query over two registered components has matched an
\* archetype that holds both and an archetype that holds only one of them.
C29_Witness ==
    \E k \in DOMAIN queries :
        /\ queries[k].form = "ReadAll"
        /\ Len(Unwrap(all_state[queries[k].trait]).components) = 2
        /\ {"TabA", "SpA"} \in queries[k].matched
        /\ {"TabA"} \in queries[k].matched
====
